---------------------------- MODULE Spec2Model ----------------------------
(***************************************************************************)
(* Model of the matrix-operations crate: the Matrix value, the             *)
(* BuilderMatrix staged constructor and the Add operation.                 *)
(*                                                                         *)
(* f64 cells are modelled as integers and f64 addition as integer          *)
(* addition (no NaN / infinity / rounding).  usize indices are 0-based in  *)
(* the source and TLA+ sequences are 1-based, so data[i][j] of the source  *)
(* is data[i + 1][j + 1] here.  A Rust panic (Vec index out of bounds,     *)
(* unwrap of None) is a defined, deterministic outcome and is modelled as  *)
(* the result Panic.                                                       *)
(*                                                                         *)
(* Two specifications are given.  Spec drives one builder through its      *)
(* setters to done().  SpecOps holds two Matrix values obtained from the   *)
(* public constructors and applies get, verify and add to them.            *)
(***************************************************************************)
EXTENDS Integers, Sequences, FiniteSets

\* ------------------------------------------------------------------------
\* Bounds of the model
\* ------------------------------------------------------------------------

\* Largest dimension passed to rows(n) / cols(n), largest number of rows of
\* a data argument and largest length of one of its rows.
MaxDim == 2

\* Number of distinct cell fillings a data argument is drawn with.
NumFills == 2

Dims == 0..MaxDim

\* The cell at (i, j) of filling f: distinct for distinct (f, i, j), never 0.
Cell(f, i, j) == 100 * f + 10 * i + j

\* Row lengths of a data argument: any number of rows up to MaxDim, each of
\* any length up to MaxDim (ragged and empty rows included).
Shapes == UNION { [1..n -> 0..MaxDim] : n \in 0..MaxDim }

\* The Vec<Vec<f64>> arguments passed to data(d).
DataInputs ==
    { [i \in 1..Len(s) |-> [j \in 1..s[i] |-> Cell(f, i, j)]] :
        s \in Shapes, f \in 1..NumFills }

\* ------------------------------------------------------------------------
\* errors.rs
\* ------------------------------------------------------------------------

MatrixError ==
    {"InvalidMatrixSize", "DimensionMismatch", "InvalidOperation", "DataMismatch"}

\* Result<Matrix, MatrixError>, plus the panic outcome.
Ok(m)  == [tag |-> "Ok", value |-> m]
Err(e) == [tag |-> "Err", error |-> e]
Panic  == [tag |-> "Panic"]

\* Option<f64>, plus the panic outcome (tag "Panic" above).
Some(v) == [tag |-> "Some", value |-> v]
None    == [tag |-> "None"]

\* ------------------------------------------------------------------------
\* matrix.rs: Matrix
\* ------------------------------------------------------------------------

\* struct Matrix { rows, cols, data }
Matrix(r, c, d) == [rows |-> r, cols |-> c, data |-> d]

\* Matrix::new(): rows 1, cols 1, data Vec::new().
Matrix_new == Matrix(1, 1, <<>>)

\* v[i] of a Vec succeeds iff i < v.len().
InBounds(v, i) == i < Len(v)

\* Matrix::get(&self, row, col)
get(self, row, col) ==
    IF row < self.rows /\ col < self.cols
    THEN IF InBounds(self.data, row) /\ InBounds(self.data[row + 1], col)
         THEN Some(self.data[row + 1][col + 1])
         ELSE Panic
    ELSE None

\* A plausible slip in verify: the additive branch compares rows only.
verifyRowsOnly(self, is_mult, other) ==
    IF is_mult
    THEN self.rows = other.cols
    ELSE self.rows = other.rows

\* A plausible slip in verify: the standard A x B rule in the
\* multiplication branch.
verifyStandardMult(self, is_mult, other) ==
    IF is_mult
    THEN self.cols = other.rows
    ELSE self.rows = other.rows /\ self.cols = other.cols

\* Matrix::verify(&self, is_mult, other)
verify(self, is_mult, other) ==
    IF is_mult
    THEN self.rows = other.cols
    ELSE self.rows = other.rows /\ self.cols = other.cols

\* ------------------------------------------------------------------------
\* matrix.rs: BuilderMatrix
\* ------------------------------------------------------------------------

\* struct BuilderMatrix { rows, cols, data }.  The three fields are Option
\* in the source but are Some(..) from new() on and every setter stores
\* Some(..), so the unwrap()s of done() never fail; the model keeps the
\* wrapped values.
BuilderMatrix(r, c, d) == [rows |-> r, cols |-> c, data |-> d]

\* BuilderMatrix::new(), reached through Matrix::builder().
BuilderMatrix_new == BuilderMatrix(1, 1, <<>>)

\* Matrix::builder()
builder == BuilderMatrix_new

\* A plausible slip in rows(): the setter rebuilds the builder and loses
\* the data set before it.
rowsDropsData(self, n) == BuilderMatrix(n, self.cols, <<>>)

\* BuilderMatrix::rows(self, n)
rows(self, n) == [self EXCEPT !.rows = n]

\* BuilderMatrix::cols(self, n)
cols(self, n) == [self EXCEPT !.cols = n]

\* BuilderMatrix::data(self, data)
data(self, d) == [self EXCEPT !.data = d]

\* A plausible slip in the zero fill: rows and cols exchanged.
ZerosTransposed(r, c) == [i \in 1..c |-> [j \in 1..r |-> 0]]

\* vec![vec![0.0; c]; r]
Zeros(r, c) == [i \in 1..r |-> [j \in 1..c |-> 0]]

\* data.len() != rows || data.iter().any(|row| row.len() != cols)
Mismatch(self) ==
    \/ Len(self.data) # self.rows
    \/ \E i \in 1..Len(self.data) : Len(self.data[i]) # self.cols

\* A plausible slip in done(): the empty-data arm is tried before the
\* zero-dimension arm.
doneZeroFillFirst(self) ==
    IF self.data = <<>>
    THEN Ok(Matrix(self.rows, self.cols, Zeros(self.rows, self.cols)))
    ELSE IF self.rows = 0 \/ self.cols = 0
    THEN Err("InvalidMatrixSize")
    ELSE IF Mismatch(self)
    THEN Err("DataMismatch")
    ELSE Ok(Matrix(self.rows, self.cols, self.data))

\* A plausible slip in done(): only the outer length of data is compared.
doneOuterOnly(self) ==
    IF self.rows = 0 \/ self.cols = 0
    THEN Err("InvalidMatrixSize")
    ELSE IF self.data = <<>>
    THEN Ok(Matrix(self.rows, self.cols, Zeros(self.rows, self.cols)))
    ELSE IF Len(self.data) # self.rows
    THEN Err("DataMismatch")
    ELSE Ok(Matrix(self.rows, self.cols, self.data))

\* BuilderMatrix::done(self): the four match arms in order.
done(self) ==
    IF self.rows = 0 \/ self.cols = 0
    THEN Err("InvalidMatrixSize")
    ELSE IF self.data = <<>>
    THEN Ok(Matrix(self.rows, self.cols, Zeros(self.rows, self.cols)))
    ELSE IF Mismatch(self)
    THEN Err("DataMismatch")
    ELSE Ok(Matrix(self.rows, self.cols, self.data))

\* ------------------------------------------------------------------------
\* operations/add.rs
\* ------------------------------------------------------------------------

\* A plausible slip in the loop body: the right operand is read from self.
cellSumSelfTwice(self, other, i, j) ==
    self.data[i + 1][j + 1] + self.data[i + 1][j + 1]

\* self.data[i][j] + other.data[i][j]
cellSum(self, other, i, j) ==
    self.data[i + 1][j + 1] + other.data[i + 1][j + 1]

\* Every index of `result.data[i][j] = self.data[i][j] + other.data[i][j]`
\* is inside its Vec.
cellInBounds(self, other, result, i, j) ==
    /\ InBounds(self.data, i) /\ InBounds(self.data[i + 1], j)
    /\ InBounds(other.data, i) /\ InBounds(other.data[i + 1], j)
    /\ InBounds(result.data, i) /\ InBounds(result.data[i + 1], j)

\* The nested loops `for i in 0..self.rows { for j in 0..self.cols { .. } }`
\* from their k-th iteration on (row-major, i = k / cols, j = k % cols),
\* result being the matrix filled so far.  An index outside a Vec panics.
RECURSIVE addLoop(_, _, _, _)
addLoop(self, other, result, k) ==
    IF k >= self.rows * self.cols
    THEN Ok(result)
    ELSE LET i == k \div self.cols
             j == k % self.cols
         IN  IF cellInBounds(self, other, result, i, j)
             THEN addLoop(self, other,
                          [result EXCEPT !.data[i + 1][j + 1] =
                                             cellSum(self, other, i, j)],
                          k + 1)
             ELSE Panic

\* <Matrix as Add>::add(self, other)
add(self, other) ==
    IF ~verify(self, FALSE, other)
    THEN Err("DimensionMismatch")
    ELSE LET shell == done(cols(rows(builder, self.rows), self.cols))
         IN  IF shell.tag # "Ok"
             THEN shell
             ELSE addLoop(self, other, shell.value, 0)

\* ------------------------------------------------------------------------
\* State
\* ------------------------------------------------------------------------

Slots == {"a", "b"}

VARIABLES
    phase,    \* "accumulating" | "finalized": the builder's typestate
    bm,       \* the BuilderMatrix under configuration
    calls,    \* the argument of the latest rows / cols / data call, or the
              \* documented default (1, 1, empty) while there is none
    fresh,    \* TRUE until the first setter call on this builder
    result,   \* what done() returned, Pending before it
    mat,      \* the two Matrix values the caller holds
    origin,   \* which constructor each came from: "builder" | "new"
    last      \* the latest get / verify / add call and what it returned

bvars == <<phase, bm, calls, fresh, result>>
ovars == <<mat, origin, last>>
vars  == <<phase, bm, calls, fresh, result, mat, origin, last>>

NoCall == [op |-> "none"]

Pending == [tag |-> "Pending"]

Init ==
    /\ phase = "accumulating"
    /\ bm = builder
    /\ calls = [rows |-> 1, cols |-> 1, data |-> <<>>]
    /\ fresh = TRUE
    /\ result = Pending
    /\ mat = [s \in Slots |-> done(builder).value]
    /\ origin = [s \in Slots |-> "builder"]
    /\ last = NoCall

\* ------------------------------------------------------------------------
\* Spec: one builder, from Matrix::builder() through its setters to done()
\* ------------------------------------------------------------------------

\* Matrix::builder(): a new builder replaces the finished one.
Builder ==
    /\ phase = "finalized"
    /\ phase' = "accumulating"
    /\ bm' = builder
    /\ calls' = [rows |-> 1, cols |-> 1, data |-> <<>>]
    /\ fresh' = TRUE
    /\ result' = Pending
    /\ UNCHANGED ovars

\* .rows(n)
Rows ==
    /\ phase = "accumulating"
    /\ \E n \in Dims :
         /\ bm' = rows(bm, n)
         /\ calls' = [calls EXCEPT !.rows = n]
    /\ fresh' = FALSE
    /\ UNCHANGED <<phase, result>>
    /\ UNCHANGED ovars

\* .cols(n)
Cols ==
    /\ phase = "accumulating"
    /\ \E n \in Dims :
         /\ bm' = cols(bm, n)
         /\ calls' = [calls EXCEPT !.cols = n]
    /\ fresh' = FALSE
    /\ UNCHANGED <<phase, result>>
    /\ UNCHANGED ovars

\* .data(d)
Data ==
    /\ phase = "accumulating"
    /\ \E d \in DataInputs :
         /\ bm' = data(bm, d)
         /\ calls' = [calls EXCEPT !.data = d]
    /\ fresh' = FALSE
    /\ UNCHANGED <<phase, result>>
    /\ UNCHANGED ovars

\* .done(): consumes the builder.
Done ==
    /\ phase = "accumulating"
    /\ phase' = "finalized"
    /\ result' = done(bm)
    /\ UNCHANGED <<bm, calls, fresh>>
    /\ UNCHANGED ovars

Next == Builder \/ Rows \/ Cols \/ Data \/ Done

Spec == Init /\ [][Next]_vars

\* ------------------------------------------------------------------------
\* SpecOps: two Matrix values from the public constructors, and the
\* operations on them
\* ------------------------------------------------------------------------

\* What Matrix::builder().rows(r).cols(c).data(d).done() returns, over all
\* arguments (a setter left out is the same as a setter called with the
\* default).
Built ==
    { done(data(cols(rows(builder, r), c), d)) :
        r \in Dims, c \in Dims, d \in DataInputs }

\* let m = Matrix::builder().rows(r).cols(c).data(d).done().unwrap();
Build ==
    \E s \in Slots, res \in Built :
        /\ res.tag = "Ok"
        /\ mat' = [mat EXCEPT ![s] = res.value]
        /\ origin' = [origin EXCEPT ![s] = "builder"]
        /\ last' = NoCall
        /\ UNCHANGED bvars

\* let m = Matrix::new();
New ==
    \E s \in Slots :
        /\ mat' = [mat EXCEPT ![s] = Matrix_new]
        /\ origin' = [origin EXCEPT ![s] = "new"]
        /\ last' = NoCall
        /\ UNCHANGED bvars

\* m.get(row, col)
Get ==
    \E s \in Slots, row \in Dims, col \in Dims :
        /\ last' = [op |-> "get", self |-> s, row |-> row, col |-> col,
                    out |-> get(mat[s], row, col)]
        /\ UNCHANGED <<mat, origin>>
        /\ UNCHANGED bvars

\* m.verify(is_mult, other.clone())
Verify ==
    \E s \in Slots, t \in Slots, is_mult \in BOOLEAN :
        /\ last' = [op |-> "verify", self |-> s, other |-> t,
                    is_mult |-> is_mult,
                    out |-> verify(mat[s], is_mult, mat[t])]
        /\ UNCHANGED <<mat, origin>>
        /\ UNCHANGED bvars

\* m.clone().add(other.clone())
Add ==
    \E s \in Slots, t \in Slots :
        /\ last' = [op |-> "add", self |-> s, other |-> t,
                    out |-> add(mat[s], mat[t])]
        /\ UNCHANGED <<mat, origin>>
        /\ UNCHANGED bvars

NextOps == Build \/ New \/ Get \/ Verify \/ Add

SpecOps == Init /\ [][NextOps]_vars

\* ------------------------------------------------------------------------
\* Properties
\* ------------------------------------------------------------------------

\* The shape invariant of the data model.
ShapeOk(m) ==
    /\ m.rows > 0
    /\ m.cols > 0
    /\ Len(m.data) = m.rows
    /\ \A i \in 1..Len(m.data) : Len(m.data[i]) = m.cols

SameShape(a, b) == a.rows = b.rows /\ a.cols = b.cols

\* C1: every Matrix the caller obtains - from builder()...done(), from
\* Matrix::new() or as the Ok result of add - has rows > 0, cols > 0,
\* data.len() == rows and every row of data of length cols.
C1_ShapeInvariant ==
    /\ \A s \in Slots : ShapeOk(mat[s])
    /\ (last.op = "add" /\ last.out.tag = "Ok") => ShapeOk(last.out.value)

\* C2: add of two builder-produced matrices of equal shape returns Ok with
\* the shape of the operands and, in every cell (i, j), the sum of the
\* operands' cells at (i, j).
C2_AddElementwise ==
    (/\ last.op = "add"
     /\ origin[last.self] = "builder"
     /\ origin[last.other] = "builder"
     /\ SameShape(mat[last.self], mat[last.other]))
    => LET a == mat[last.self]
           b == mat[last.other]
       IN  /\ last.out.tag = "Ok"
           /\ last.out.value.rows = a.rows
           /\ last.out.value.cols = a.cols
           /\ Len(last.out.value.data) = a.rows
           /\ \A i \in 1..a.rows :
                /\ Len(last.out.value.data[i]) = a.cols
                /\ \A j \in 1..a.cols :
                     last.out.value.data[i][j] = a.data[i][j] + b.data[i][j]

\* Witness of C2: two 2x2 matrices with different cells have been added.
C2_Witness ==
    /\ last.op = "add"
    /\ origin[last.self] = "builder"
    /\ origin[last.other] = "builder"
    /\ mat[last.self].rows = 2 /\ mat[last.self].cols = 2
    /\ mat[last.other].rows = 2 /\ mat[last.other].cols = 2
    /\ mat[last.self].data[2][1] = Cell(1, 2, 1)
    /\ mat[last.other].data[2][1] = Cell(2, 2, 1)
    /\ last.out.tag = "Ok"
    /\ last.out.value.data[2][1] = Cell(1, 2, 1) + Cell(2, 2, 1)

\* C3: add of two builder-produced matrices returns Err(DimensionMismatch)
\* exactly when their rows or their cols differ, and then returns no Matrix.
C3_DimensionMismatchIff ==
    (/\ last.op = "add"
     /\ origin[last.self] = "builder"
     /\ origin[last.other] = "builder")
    => ((last.out.tag = "Err" /\ last.out.error = "DimensionMismatch")
        <=> ~SameShape(mat[last.self], mat[last.other]))

\* Witness of C3: a 1x2 and a 1x1 matrix (same rows, different cols) have
\* been added and the call failed with DimensionMismatch.
C3_Witness ==
    /\ last.op = "add"
    /\ origin[last.self] = "builder"
    /\ origin[last.other] = "builder"
    /\ mat[last.self].rows = mat[last.other].rows
    /\ mat[last.self].cols # mat[last.other].cols
    /\ last.out.tag = "Err"
    /\ last.out.error = "DimensionMismatch"

\* C4: when the last rows(n) or the last cols(n) of a builder was given 0,
\* done() returns Err(InvalidMatrixSize), whatever data holds.
C4_ZeroDimensionFirst ==
    (phase = "finalized" /\ (calls.rows = 0 \/ calls.cols = 0))
    => (result.tag = "Err" /\ result.error = "InvalidMatrixSize")

\* Witness of C4: rows 0 with empty data (the zero-fill arm would apply)
\* has been finalized.
C4_Witness ==
    /\ phase = "finalized"
    /\ calls.rows = 0
    /\ calls.cols > 0
    /\ calls.data = <<>>
    /\ result.tag = "Err"

\* C5: with positive rows r and cols c (set or default) and empty data,
\* done() returns Ok with rows r, cols c and r rows of c cells 0.0; a
\* builder no setter was called on yields the 1x1 matrix [[0.0]].
C5_ZeroFill ==
    /\ (/\ phase = "finalized"
        /\ calls.rows > 0 /\ calls.cols > 0
        /\ calls.data = <<>>)
       => /\ result.tag = "Ok"
          /\ result.value.rows = calls.rows
          /\ result.value.cols = calls.cols
          /\ Len(result.value.data) = calls.rows
          /\ \A i \in 1..calls.rows :
               /\ Len(result.value.data[i]) = calls.cols
               /\ \A j \in 1..calls.cols : result.value.data[i][j] = 0
    /\ (phase = "finalized" /\ fresh)
       => /\ result.tag = "Ok"
          /\ result.value = Matrix(1, 1, << <<0>> >>)

\* Witness of C5: rows(2) with cols and data never set has been finalized.
C5_Witness ==
    /\ phase = "finalized"
    /\ ~fresh
    /\ calls.rows = 2 /\ calls.cols = 1
    /\ calls.data = <<>>
    /\ result.tag = "Ok"
    /\ Len(result.value.data) = 2

\* The data argument d does not have the r x c shape.
DataMismatches(r, c, d) ==
    \/ Len(d) # r
    \/ \E i \in 1..Len(d) : Len(d[i]) # c

\* C6: with positive rows r and cols c and non-empty data whose outer
\* length is not r or one of whose rows has a length other than c, done()
\* returns Err(DataMismatch) and no Matrix.
C6_DataMismatch ==
    (/\ phase = "finalized"
     /\ calls.rows > 0 /\ calls.cols > 0
     /\ calls.data # <<>>
     /\ DataMismatches(calls.rows, calls.cols, calls.data))
    => (result.tag = "Err" /\ result.error = "DataMismatch")

\* Witness of C6: data with the right number of rows, one of them empty,
\* has been finalized.
C6_Witness ==
    /\ phase = "finalized"
    /\ calls.rows = 2 /\ calls.cols = 2
    /\ Len(calls.data) = 2
    /\ Len(calls.data[1]) = 2
    /\ Len(calls.data[2]) = 0
    /\ result.tag = "Err"

\* C7: each setter replaces its own field only, so the builder holds the
\* last value given for each field (defaults 1, 1, empty); when these are
\* r > 0, c > 0 and non-empty data of shape r x c, done() returns Ok with
\* rows r, cols c and that data unchanged.
C7_DataKept ==
    /\ bm = BuilderMatrix(calls.rows, calls.cols, calls.data)
    /\ (/\ phase = "finalized"
        /\ calls.rows > 0 /\ calls.cols > 0
        /\ calls.data # <<>>
        /\ ~DataMismatches(calls.rows, calls.cols, calls.data))
       => /\ result.tag = "Ok"
          /\ result.value = Matrix(calls.rows, calls.cols, calls.data)

\* Witness of C7: a 2x2 data argument has been finalized with rows 2 and
\* cols 2.
C7_Witness ==
    /\ phase = "finalized"
    /\ calls.rows = 2 /\ calls.cols = 2
    /\ Len(calls.data) = 2
    /\ Len(calls.data[1]) = 2
    /\ Len(calls.data[2]) = 2
    /\ result.tag = "Ok"
    /\ result.value.data[2][2] = calls.data[2][2]

\* C8: get(row, col) on a Matrix from builder()...done() or Matrix::new()
\* returns Some(data[row][col]) when row < rows and col < cols and None
\* otherwise; it never aborts.
C8_GetTotal ==
    last.op = "get"
    => LET m == mat[last.self]
       IN  IF last.row < m.rows /\ last.col < m.cols
           THEN /\ last.out.tag = "Some"
                /\ last.out.value = m.data[last.row + 1][last.col + 1]
           ELSE last.out.tag = "None"

\* C9: done() returns Ok or Err(InvalidMatrixSize | DataMismatch) for every
\* builder configuration, and add returns Ok or Err for every two matrices
\* from builder()...done() or Matrix::new(); neither aborts.
C9_NoAbort ==
    /\ phase = "finalized"
       => \/ result.tag = "Ok"
          \/ /\ result.tag = "Err"
             /\ result.error \in {"InvalidMatrixSize", "DataMismatch"}
    /\ last.op = "add"
       => \/ last.out.tag = "Ok"
          \/ /\ last.out.tag = "Err"
             /\ last.out.error \in MatrixError

\* C10: verify(false, b) is true iff rows and cols are equal, and is
\* symmetric; verify(true, b) is true iff self.rows == b.cols, whatever
\* self.cols, b.rows and the data are.
C10_Verify ==
    last.op = "verify"
    => LET a == mat[last.self]
           b == mat[last.other]
       IN  /\ last.out \in BOOLEAN
           /\ ~last.is_mult =>
                /\ last.out <=> (a.rows = b.rows /\ a.cols = b.cols)
                /\ last.out <=> verify(b, FALSE, a)
           /\ last.is_mult => (last.out <=> (a.rows = b.cols))

\* Witness of C10: verify(true, b) answered true for a pair the reversed
\* call answers false for.
C10_Witness ==
    /\ last.op = "verify"
    /\ last.is_mult
    /\ last.out = TRUE
    /\ mat[last.self].rows = mat[last.other].cols
    /\ mat[last.other].rows # mat[last.self].cols
    /\ ~verify(mat[last.other], TRUE, mat[last.self])

=============================================================================
